---- MODULE Spec2Model ----
(***************************************************************************)
(* Model of src/py/flwr_experimental/baseline/pytorch/cifar/dataloader.py: *)
(* the partitioned dataset view (CIFAR_PartitionedDataset and its two      *)
(* specialisations) and the LDA partition generation script (__main__).    *)
(*                                                                         *)
(* A path is the sequence of its components (pathlib's parts); a file      *)
(* name is a string built by the same formatting the code uses.  The file  *)
(* system is a function from the paths of the existing files to their      *)
(* contents.  A float alpha is an exact number of thousandths.             *)
(***************************************************************************)
EXTENDS Integers, Sequences, FiniteSets, TLC

(***************************************************************************)
(* fs         the files: path -> content                                   *)
(* dirs       the directories that exist                                   *)
(* view       the last constructor call of a dataset class and its outcome:*)
(*            the exception raised ("none" if it returned), the attributes *)
(*            assigned to self, the file-system operations performed       *)
(* ret        the last __len__/__getitem__ call on the view and its result *)
(* pc, args, save_root, dist, split                                        *)
(*            the script: its position, parsed arguments and locals        *)
(* calls      the calls of create_lda_partitions made by the current run   *)
(* pre        per split, the file names mkdir found in save_dir            *)
(* runs       the (alpha, num_partitions) of the runs started so far       *)
(* named      shard paths computed by the naming specification             *)
(***************************************************************************)
VARIABLES fs, dirs, view, ret, pc, args, save_root, dist, split, calls, pre, runs, named

vars == <<fs, dirs, view, ret, pc, args, save_root, dist, split, calls, pre, runs, named>>

viewVars == <<view, ret>>

genVars == <<dirs, pc, args, save_root, dist, split, calls, pre, runs>>

(***************************************************************************)
(* Bounds of the model.                                                    *)
(***************************************************************************)
\* longest partition file written by hand (elements)
MaxLen == 2
\* partition ids used by views are 0..MaxPid
MaxPid == 1
\* at most this many hand-written partition files exist at once
MaxFiles == 1
\* number of elements of the source dataset handed to the partitioner
DatasetSize == 3
\* num_partitions ranges over 1..MaxPartitions
MaxPartitions == 2
\* generation runs per behaviour
MaxRuns == 2
\* shard paths computed per behaviour of the naming specification
MaxNamed == 2

(***************************************************************************)
(* Strings and paths.                                                      *)
(***************************************************************************)
DigitChar(d) == <<"0", "1", "2", "3", "4", "5", "6", "7", "8", "9">>[d + 1]

RECURSIVE NatStr(_)
\* str(n) for n >= 0: the decimal digits, no padding
NatStr(n) == IF n < 10 THEN DigitChar(n) ELSE NatStr(n \div 10) \o DigitChar(n % 10)

\* f"{n}" for an int
IntStr(n) == IF n < 0 THEN "-" \o NatStr(-n) ELSE NatStr(n)

\* DATA_ROOT = "~/.flower/data/cifar" as path parts
DATA_ROOT == <<"~", ".flower", "data", "cifar">>

\* pathlib's "/": one more component
Join(dir, name) == Append(dir, name)

\* the directory a file path lies in
Parent(path) == SubSeq(path, 1, Len(path) - 1)

\* the names of the files directly in directory dir, in file system files
Listing(files, dir) == {p[Len(p)] : p \in {q \in DOMAIN files : Parent(q) = dir}}

(***************************************************************************)
(* Serialisation: save pickles the pair of numpy arrays, load returns the  *)
(* pair, from_numpy wraps an array as a tensor over the same elements.     *)
(***************************************************************************)
ndarray(elems) == [ndarray |-> elems]

save(xy) == [pickle |-> xy]

load(files, path) == files[path].pickle

\* writing a file creates it or replaces its content
WriteFile(files, path, content) == (path :> content) @@ files

from_numpy(a) == [tensor |-> a.ndarray]

\* len(tensor)
TensorLen(t) == Len(t.tensor)

\* tensor[i] for a Python int i: negative indices count from the end
TensorInRange(t, i) == -TensorLen(t) <= i /\ i < TensorLen(t)

TensorAt(t, i) == IF i < 0 THEN t.tensor[TensorLen(t) + i + 1] ELSE t.tensor[i + 1]

(***************************************************************************)
(* CIFAR_PartitionedDataset                                                *)
(***************************************************************************)
\* the view before any constructor has run
NoCall == [cls |-> "none", kw |-> <<>>]

NoView == [call |-> NoCall, exc |-> "unborn", obj |-> <<>>, io |-> <<>>]

\* the view left by constructor call cls(**kw) with outcome r
Called(cls, kw, r) == [call |-> [cls |-> cls, kw |-> kw], exc |-> r.exc, obj |-> r.obj, io |-> r.io]

NoRet == [op |-> "none", idx |-> 0, exc |-> "none", value |-> <<>>]

\* num_classes in [10, 100]
ValidNumClasses == {10, 100}

\* variant: the partition id left out of the file name
PartitionPath_NoId(root_dir, num_classes, partition_id) ==
    Join(root_dir, "cifar" \o IntStr(num_classes) \o ".pt")

\* self.root_dir / f"cifar{num_classes}_{self.partition_id}.pt"
PartitionPath(root_dir, num_classes, partition_id) ==
    Join(root_dir, "cifar" \o IntStr(num_classes) \o "_" \o IntStr(partition_id) \o ".pt")

\* variant: the partition file is looked up before num_classes is validated
InitBody_ExistsFirst(files, num_classes, root_dir, partition_id, transform) ==
    LET path == PartitionPath(root_dir, num_classes, partition_id)
        o1   == ("root_dir" :> root_dir) @@ ("partition_id" :> partition_id)
                    @@ ("partition_path" :> path)
    IN  IF path \notin DOMAIN files
        THEN [exc |-> "RuntimeError", obj |-> o1, io |-> <<<<"exists", path>>>>]
        ELSE IF num_classes \notin ValidNumClasses
        THEN [exc |-> "ValueError", obj |-> o1, io |-> <<<<"exists", path>>>>]
        ELSE LET xy == load(files, path)
             IN  [exc |-> "none",
                  obj |-> o1 @@ ("X" :> from_numpy(xy[1])) @@ ("Y" :> from_numpy(xy[2])),
                  io  |-> <<<<"exists", path>>, <<"load", path>>>>]

\* the body of CIFAR_PartitionedDataset.__init__ on bound parameters
InitBody(files, num_classes, root_dir, partition_id, transform) ==
    IF num_classes \notin ValidNumClasses
    THEN [exc |-> "ValueError", obj |-> <<>>, io |-> <<>>]
    ELSE LET path == PartitionPath(root_dir, num_classes, partition_id)
             o1   == ("root_dir" :> root_dir) @@ ("partition_id" :> partition_id)
                         @@ ("partition_path" :> path)
         IN  IF path \notin DOMAIN files
             THEN [exc |-> "RuntimeError", obj |-> o1, io |-> <<<<"exists", path>>>>]
             ELSE LET xy == load(files, path)
                  IN  [exc |-> "none",
                       obj |-> o1 @@ ("X" :> from_numpy(xy[1])) @@ ("Y" :> from_numpy(xy[2])),
                       io  |-> <<<<"exists", path>>, <<"load", path>>>>]

\* the keyword-only parameters of __init__ without a default
RequiredKw == {"partition_id", "transform"}

\* a call CIFAR_PartitionedDataset.__init__(**kw): Python binds the keywords
\* (num_classes and root_dir have defaults), then runs the body
CIFAR_PartitionedDataset_init(files, kw) ==
    IF ~(RequiredKw \subseteq DOMAIN kw)
    THEN [exc |-> "TypeError", obj |-> <<>>, io |-> <<>>]
    ELSE InitBody(files,
                  IF "num_classes" \in DOMAIN kw THEN kw.num_classes ELSE 10,
                  IF "root_dir" \in DOMAIN kw THEN kw.root_dir ELSE DATA_ROOT,
                  kw.partition_id, kw.transform)

\* the keywords CIFAR10PartitionedDataset.__init__ hands to super().__init__
CIFAR10_kw(root_dir, partition_id) ==
    ("num_classes" :> 10) @@ ("root_dir" :> root_dir) @@ ("partition_id" :> partition_id)

\* the keywords CIFAR100PartitionedDataset.__init__ hands to super().__init__
CIFAR100_kw(root_dir, partition_id) ==
    ("num_classes" :> 100) @@ ("root_dir" :> root_dir) @@ ("partition_id" :> partition_id)

\* __len__
DatasetLen(v) == TensorLen(v.obj.X)

\* __getitem__: x = self.X[idx]; y = self.Y[idx]; if self.transform: x = self.trasform(x)
DatasetGetItem(v, i) ==
    IF ~TensorInRange(v.obj.X, i) \/ ~TensorInRange(v.obj.Y, i)
    THEN [op |-> "getitem", idx |-> i, exc |-> "IndexError", value |-> <<>>]
    ELSE IF "transform" \notin DOMAIN v.obj
    THEN [op |-> "getitem", idx |-> i, exc |-> "AttributeError", value |-> <<>>]
    ELSE IF v.obj.transform # "None" /\ "trasform" \notin DOMAIN v.obj
    THEN [op |-> "getitem", idx |-> i, exc |-> "AttributeError", value |-> <<>>]
    ELSE [op |-> "getitem", idx |-> i, exc |-> "none",
          value |-> <<TensorAt(v.obj.X, i), TensorAt(v.obj.Y, i)>>]

(***************************************************************************)
(* Inputs of the view operations.                                          *)
(***************************************************************************)
\* num_classes arguments tried, valid and invalid
NumClassesInputs == {7, 10, 100}

PartitionIds == 0 .. MaxPid

ViewRoots == {DATA_ROOT}

Transforms == {"None", "normalize"}

Indices == -(MaxLen + 1) .. (MaxLen + 1)

\* the labelled samples a hand-written partition file is made of
Samples == 1 .. MaxLen

Feature(s) == 70 + s

Label(s) == s % 2

\* the samples 1..n in each of their cyclic orders
SampleSeqs(n) == {[i \in 1 .. n |-> ((i + k - 1) % n) + 1] : k \in 0 .. n - 1}

\* the (Features, Labels) pair of numpy arrays holding samples q
XYOf(q) == <<ndarray([i \in 1 .. Len(q) |-> Feature(q[i])]), ndarray([i \in 1 .. Len(q) |-> Label(q[i])])>>

ArrayPairs == {XYOf(q) : q \in UNION {SampleSeqs(n) : n \in 0 .. MaxLen}}

(***************************************************************************)
(* Actions of the view.                                                    *)
(***************************************************************************)
\* a partition file is written where a view will look for it: save((X, Y), path).
\* Partition files are produced offline, before the first view is opened.
SavePartition(num_classes, root_dir, partition_id, xy) ==
    LET path == PartitionPath(root_dir, num_classes, partition_id)
    IN  /\ view = NoView
        /\ path \in DOMAIN fs \/ Cardinality(DOMAIN fs) < MaxFiles
        /\ fs' = WriteFile(fs, path, save(xy))
        /\ UNCHANGED <<viewVars, genVars, named>>

\* CIFAR_PartitionedDataset(num_classes=, root_dir=, partition_id=, transform=)
Construct(num_classes, root_dir, partition_id, transform) ==
    /\ LET kw == ("num_classes" :> num_classes) @@ ("root_dir" :> root_dir)
                     @@ ("partition_id" :> partition_id) @@ ("transform" :> transform)
       IN  view' = Called("CIFAR_PartitionedDataset", kw, CIFAR_PartitionedDataset_init(fs, kw))
    /\ ret' = NoRet
    /\ UNCHANGED <<fs, genVars, named>>

\* CIFAR10PartitionedDataset(root_dir=, partition_id=)
Construct10(root_dir, partition_id) ==
    /\ view' = Called("CIFAR10PartitionedDataset",
                       ("root_dir" :> root_dir) @@ ("partition_id" :> partition_id),
                       CIFAR_PartitionedDataset_init(fs, CIFAR10_kw(root_dir, partition_id)))
    /\ ret' = NoRet
    /\ UNCHANGED <<fs, genVars, named>>

\* CIFAR100PartitionedDataset(root_dir=, partition_id=)
Construct100(root_dir, partition_id) ==
    /\ view' = Called("CIFAR100PartitionedDataset",
                       ("root_dir" :> root_dir) @@ ("partition_id" :> partition_id),
                       CIFAR_PartitionedDataset_init(fs, CIFAR100_kw(root_dir, partition_id)))
    /\ ret' = NoRet
    /\ UNCHANGED <<fs, genVars, named>>

\* len(view) on a constructed view
Length ==
    /\ view.exc = "none"
    /\ ret' = [op |-> "len", idx |-> 0, exc |-> "none", value |-> <<DatasetLen(view)>>]
    /\ UNCHANGED <<fs, view, genVars, named>>

\* view[i] on a constructed view
GetItem(i) ==
    /\ view.exc = "none"
    /\ ret' = DatasetGetItem(view, i)
    /\ UNCHANGED <<fs, view, genVars, named>>

Init ==
    /\ fs = <<>>
    /\ dirs = {SubSeq(DATA_ROOT, 1, n) : n \in 1 .. Len(DATA_ROOT)}
    /\ view = NoView
    /\ ret = NoRet
    /\ pc = "idle"
    /\ args = <<>>
    /\ save_root = <<>>
    /\ dist = <<>>
    /\ split = 0
    /\ calls = <<>>
    /\ pre = <<>>
    /\ runs = <<>>
    /\ named = {}

NextView ==
    \/ \E nc \in NumClassesInputs, r \in ViewRoots, p \in PartitionIds, xy \in ArrayPairs :
           SavePartition(nc, r, p, xy)
    \/ \E nc \in NumClassesInputs, r \in ViewRoots, p \in PartitionIds, t \in Transforms :
           Construct(nc, r, p, t)
    \/ \E r \in ViewRoots, p \in PartitionIds : Construct10(r, p)
    \/ \E r \in ViewRoots, p \in PartitionIds : Construct100(r, p)
    \/ Length
    \/ \E i \in Indices : GetItem(i)

SpecView == Init /\ [][NextView]_vars

(***************************************************************************)
(* The generation script (__main__).                                       *)
(***************************************************************************)
\* --alpha values tried, in thousandths; none lies halfway between two
\* hundredths, where the binary float decides the rounding
Alphas == {100, 104, 106}

\* variant: f"{alpha:.1f}", one digit after the point
Fmt2f_OneDecimal(a) ==
    LET t == (a + 50) \div 100
    IN  NatStr(t \div 10) \o "." \o DigitChar(t % 10)

\* f"{alpha:.2f}": alpha rounded to hundredths, two digits after the point
Fmt2f(a) ==
    LET h == (a + 5) \div 10
    IN  NatStr(h \div 100) \o "." \o DigitChar((h \div 10) % 10) \o DigitChar(h % 10)

\* f"{idx:03}": zero-padded to at least three digits
Fmt03(n) ==
    IF n < 10 THEN "00" \o NatStr(n) ELSE IF n < 100 THEN "0" \o NatStr(n) ELSE NatStr(n)

\* Path(f"{args.save_root}") / "partitions" / "lda" / f"{args.alpha:.2f}"
SaveRoot(root, alpha) == Join(Join(Join(root, "partitions"), "lda"), Fmt2f(alpha))

\* the (dataset, data_str) list of the loop, by its data_str
SplitList == <<"train", "test">>

\* save_dir = save_root / data_str
SaveDir(sroot, data_str) == Join(sroot, data_str)

\* variant: enumerate(partitions, 1), the first shard saved as 001.pt
ShardPath_FromOne(save_dir, i) == Join(save_dir, Fmt03(i + 1) \o ".pt")

\* save_dir / f"{idx:03}.pt"
ShardPath(save_dir, i) == Join(save_dir, Fmt03(i) \o ".pt")

\* save_dir.mkdir(parents=True, exist_ok=True): the directory and its parents
MkdirParents(ds, dir) == ds \cup {SubSeq(dir, 1, n) : n \in 1 .. Len(dir)}

\* variant: the directory is emptied before it is written to
FilesAfterMkdir_Cleared(files, dir) ==
    [p \in {q \in DOMAIN files : Parent(q) # dir} |-> files[p]]

\* the files after mkdir(exist_ok=True): an existing directory keeps its content
FilesAfterMkdir(files, dir) == files

\* CIFAR10(root, train=True, download=True): both datasets of the script
SourceDataset == [i \in 1 .. DatasetSize |-> i]

\* convert_pytorch_dataset_to_xy: the dataset as a (Features, Labels) array pair
convert_pytorch_dataset_to_xy(dataset) == XYOf(dataset)

\* np.empty(0)
EmptyDist == <<>>

\* the distributions the partitioner may sample
SampledDists == {<<3, 7>>, <<6, 4>>}

\* the assignments of n elements to shards the partitioner may draw: element i
\* goes to shard ((i + r) % num_partitions) + 1, for every offset r
Assignments(n, num_partitions) ==
    {[i \in 1 .. n |-> ((i + r) % num_partitions) + 1] : r \in 0 .. num_partitions - 1}

RECURSIVE Select(_, _, _)
\* the elements of array a that assignment f sends to shard k, in their order
Select(a, f, k) ==
    IF Len(a) = 0 THEN <<>>
    ELSE LET front == Select(SubSeq(a, 1, Len(a) - 1), f, k)
         IN  IF f[Len(a)] = k THEN Append(front, a[Len(a)]) ELSE front

\* create_lda_partitions(dataset, dirichlet_dist, num_partitions, concentration):
\* num_partitions shards that cover the dataset disjointly, with the distribution
\* sampled when the given one is empty and the given one otherwise
create_lda_partitions(xy, dirichlet_dist, num_partitions) ==
    {[partitions |-> [k \in 1 .. num_partitions |->
                         <<ndarray(Select(xy[1].ndarray, f, k)), ndarray(Select(xy[2].ndarray, f, k))>>],
      dist |-> d] :
        f \in Assignments(Len(xy[1].ndarray), num_partitions),
        d \in IF dirichlet_dist = EmptyDist THEN SampledDists ELSE {dirichlet_dist}}

\* variant: every call is handed a fresh np.empty(0)
DistArgument_Fresh(running) == EmptyDist

\* the dirichlet_dist argument of the call in the loop: the running dist
DistArgument(running) == running

RECURSIVE SaveAll(_, _, _)
\* for idx, part in enumerate(partitions): save(part, save_dir / f"{idx:03}.pt")
SaveAll(files, save_dir, parts) ==
    IF Len(parts) = 0 THEN files
    ELSE WriteFile(SaveAll(files, save_dir, SubSeq(parts, 1, Len(parts) - 1)),
                   ShardPath(save_dir, Len(parts) - 1), save(parts[Len(parts)]))

\* the script starts: arguments parsed, save_root computed, dist = np.empty(0).
\* --num_classes only names the directory the source dataset is downloaded to,
\* so the arguments kept are those the loop reads.  Views on the old partitions
\* are closed before partitions are generated again.
GenStart(num_classes, num_partitions, alpha) ==
    /\ pc \in {"idle", "done"}
    /\ Len(runs) < MaxRuns
    /\ runs' = Append(runs, [alpha |-> alpha, num_partitions |-> num_partitions])
    /\ num_classes \in ValidNumClasses
    /\ args' = [num_partitions |-> num_partitions, alpha |-> alpha, save_root |-> DATA_ROOT]
    /\ save_root' = SaveRoot(DATA_ROOT, alpha)
    /\ dist' = EmptyDist
    /\ split' = 1
    /\ pc' = "loop"
    /\ calls' = <<>>
    /\ pre' = <<>>
    /\ view' = NoView
    /\ UNCHANGED <<fs, dirs, ret, named>>

\* one iteration of the loop over [(train_dataset, "train"), (test_dataset, "test")]
GenSplit ==
    /\ pc = "loop"
    /\ LET data_str == SplitList[split]
           save_dir == SaveDir(save_root, data_str)
           np_dataset == convert_pytorch_dataset_to_xy(SourceDataset)
           given == DistArgument(dist)
       IN  /\ dirs' = MkdirParents(dirs, save_dir)
           /\ pre' = (data_str :> Listing(fs, save_dir)) @@ pre
           /\ \E r \in create_lda_partitions(np_dataset, given, args.num_partitions) :
                  /\ dist' = r.dist
                  /\ calls' = Append(calls, [data_str |-> data_str, dirichlet_dist |-> given,
                                             returned |-> r.dist, partitions |-> r.partitions])
                  /\ fs' = SaveAll(FilesAfterMkdir(fs, save_dir), save_dir, r.partitions)
           /\ IF split < Len(SplitList)
              THEN split' = split + 1 /\ pc' = "loop"
              ELSE split' = split /\ pc' = "done"
    /\ UNCHANGED <<viewVars, args, save_root, runs, named>>

\* after a run, a client opens shard i of a split the run wrote (a view is
\* created once per client run)
LoadShard(num_classes, data_str, i) ==
    /\ pc = "done"
    /\ view = NoView
    /\ i < args.num_partitions
    /\ Construct(num_classes, SaveDir(save_root, data_str), i, "None")

NextGen ==
    \/ \E nc \in ValidNumClasses, n \in 1 .. MaxPartitions, a \in Alphas : GenStart(nc, n, a)
    \/ GenSplit
    \/ \E nc \in ValidNumClasses, d \in {"train", "test"}, i \in 0 .. MaxPartitions - 1 :
           LoadShard(nc, d, i)

SpecGen == Init /\ [][NextGen]_vars

(***************************************************************************)
(* The naming of the shard files, applied to the script's inputs.          *)
(***************************************************************************)
\* shard indices tried: around each change of the number of digits
ShardIndices == {0, 1, 9, 10, 99, 100, 999, 1000}

\* the path the script writes shard i of split data_str to, run with --alpha alpha
NameShard(alpha, data_str, i) ==
    /\ Cardinality(named) < MaxNamed
    /\ named' = named \cup {[alpha |-> alpha, data_str |-> data_str, idx |-> i,
                              path |-> ShardPath(SaveDir(SaveRoot(DATA_ROOT, alpha), data_str), i)]}
    /\ UNCHANGED <<fs, viewVars, genVars>>

NextNames == \E a \in Alphas, d \in {"train", "test"}, i \in ShardIndices : NameShard(a, d, i)

SpecNames == Init /\ [][NextNames]_vars

(***************************************************************************)
(* The claims.  What a claim says about names and numbers is written out   *)
(* here on its own, apart from the operators the actions use.              *)
(***************************************************************************)
\* root_dir/cifar{num_classes}_{partition_id}.pt, as the specification spells it
ExpectedPartitionFile(root_dir, num_classes, partition_id) ==
    root_dir \o <<"cifar" \o ToString(num_classes) \o "_" \o ToString(partition_id) \o ".pt">>

\* an index zero-padded to three digits, with the shard suffix
ExpectedShardName(i) ==
    (IF i < 10 THEN "00" ELSE IF i < 100 THEN "0" ELSE "") \o ToString(i) \o ".pt"

\* alpha with two decimals
ExpectedAlphaText(a) == CASE a = 100 -> "0.10" [] a = 104 -> "0.10" [] a = 106 -> "0.11"

\* save_root/partitions/lda/{alpha:.2f}/{split}
ExpectedSplitDir(a, data_str) == DATA_ROOT \o <<"partitions", "lda", ExpectedAlphaText(a), data_str>>

\* alpha (in thousandths) rounded to hundredths
Round2(a) == (a + 5) \div 10

\* the last constructor call was CIFAR_PartitionedDataset itself
BaseCall == view.call.cls = "CIFAR_PartitionedDataset"

\* the file the last base constructor call is specified to read
CalledFile ==
    ExpectedPartitionFile(view.call.kw.root_dir, view.call.kw.num_classes, view.call.kw.partition_id)

RECURSIVE SumSizes(_, _, _)
\* the number of elements in the shard files 0..n-1 of directory dir
SumSizes(files, dir, n) ==
    IF n = 0 THEN 0
    ELSE SumSizes(files, dir, n - 1) + Len(files[Join(dir, ExpectedShardName(n - 1))].pickle[1].ndarray)

\* the largest num_partitions of the runs so far
MaxN == CHOOSE m \in {runs[i].num_partitions : i \in 1 .. Len(runs)} :
            \A i \in 1 .. Len(runs) : runs[i].num_partitions <= m

\* every run so far was given the same alpha
SameAlphaRuns == \A i \in 1 .. Len(runs) : runs[i].alpha = runs[1].alpha

\* C1: for a view constructed over a partition file holding L elements, Length()
\* returns L, GetItem(i) returns (Features[i], Labels[i]) for 0 <= i < L, and
\* GetItem(i) fails for i < 0 and for i >= L.
C1_LengthAndGetItem ==
    (view.exc = "none" /\ ret.op # "none") =>
        LET xy == fs[view.obj.partition_path].pickle
            Features == xy[1].ndarray
            Labels == xy[2].ndarray
            L == Len(Features)
        IN  /\ ret.op = "len" => ret.value = <<L>>
            /\ (ret.op = "getitem" /\ 0 <= ret.idx /\ ret.idx < L) =>
                   (ret.exc = "none" /\ ret.value = <<Features[ret.idx + 1], Labels[ret.idx + 1]>>)
            /\ (ret.op = "getitem" /\ (ret.idx < 0 \/ ret.idx >= L)) => ret.exc # "none"

\* C2: for every num_classes outside {10, 100} the constructor fails with the
\* configuration error (ValueError), whatever root_dir and partition_id are and
\* whether or not the partition file exists; the path is not examined and
\* nothing is loaded.
C2_InvalidNumClasses ==
    (BaseCall /\ view.call.kw.num_classes \notin {10, 100}) =>
        (view.exc = "ValueError" /\ view.io = <<>> /\ DOMAIN view.obj = {})

\* C2 witness: the constructor was called with an invalid num_classes while the
\* file it would name exists.
C2_Witness ==
    /\ BaseCall
    /\ view.call.kw.num_classes \notin {10, 100}
    /\ CalledFile \in DOMAIN fs
    /\ view.exc = "ValueError"

\* C3: for num_classes in {10, 100} and no file at
\* root_dir/cifar{num_classes}_{partition_id}.pt, the constructor fails with the
\* not-found error (RuntimeError), loads and writes nothing, and the view has
\* no Features/Labels.
C3_MissingFile ==
    (BaseCall /\ view.call.kw.num_classes \in {10, 100} /\ CalledFile \notin DOMAIN fs) =>
        /\ view.exc = "RuntimeError"
        /\ \A k \in 1 .. Len(view.io) : view.io[k][1] = "exists"
        /\ "X" \notin DOMAIN view.obj
        /\ "Y" \notin DOMAIN view.obj

\* C3 witness: a valid call on a missing file, while another partition file exists.
C3_Witness ==
    /\ BaseCall
    /\ view.call.kw.num_classes \in {10, 100}
    /\ CalledFile \notin DOMAIN fs
    /\ DOMAIN fs # {}
    /\ view.exc = "RuntimeError"

\* C4: round trip: after a (Features, Labels) pair of length L was written to
\* root_dir/cifar{num_classes}_{partition_id}.pt, a view constructed with the
\* same arguments has Length() = L and GetItem(i) = (Features[i], Labels[i])
\* of the written data for every i in 0..L-1.
C4_RoundTrip ==
    (BaseCall /\ view.call.kw.num_classes \in {10, 100} /\ CalledFile \in DOMAIN fs) =>
        LET written == fs[CalledFile].pickle
            L == Len(written[1].ndarray)
        IN  /\ view.exc = "none"
            /\ ret.op = "len" => ret.value = <<L>>
            /\ (ret.op = "getitem" /\ ret.idx \in 0 .. L - 1) =>
                   /\ ret.exc = "none"
                   /\ ret.value = <<written[1].ndarray[ret.idx + 1], written[2].ndarray[ret.idx + 1]>>

\* C5: constructing CIFAR10PartitionedDataset (CIFAR100PartitionedDataset) has
\* the same outcome - same success or error, same loaded Features/Labels - as
\* the base constructor with num_classes = 10 (100) and the same root_dir and
\* partition_id.
C5_Specialisations ==
    \A n \in {10, 100} :
        view.call.cls = "CIFAR" \o ToString(n) \o "PartitionedDataset" =>
            \A t \in Transforms :
                LET base == CIFAR_PartitionedDataset_init(fs,
                                ("num_classes" :> n) @@ ("root_dir" :> view.call.kw.root_dir)
                                    @@ ("partition_id" :> view.call.kw.partition_id)
                                    @@ ("transform" :> t))
                IN  view.exc = base.exc /\ view.obj = base.obj

\* C6: a run with num_partitions = N on M elements that found its output
\* directories empty ends with exactly the N files 000.pt .. under train and
\* under test, each holding the shard the partitioner returned at that index,
\* and per split the element counts of the N files sum to M.
C6_FreshRun ==
    (pc = "done" /\ pre["train"] = {} /\ pre["test"] = {}) =>
        \A k \in 1 .. 2 :
            LET data_str == <<"train", "test">>[k]
                dir == ExpectedSplitDir(args.alpha, data_str)
                N == args.num_partitions
            IN  /\ Listing(fs, dir) = {ExpectedShardName(i) : i \in 0 .. N - 1}
                /\ Cardinality(Listing(fs, dir)) = N
                /\ Len(calls[k].partitions) = N
                /\ \A i \in 0 .. N - 1 :
                       fs[Join(dir, ExpectedShardName(i))] = save(calls[k].partitions[i + 1])
                /\ SumSizes(fs, dir, N) = DatasetSize

\* C6 witness: a finished run into empty directories with more than one shard.
C6_Witness ==
    /\ pc = "done"
    /\ pre["train"] = {}
    /\ pre["test"] = {}
    /\ args.num_partitions > 1
    /\ Cardinality(Listing(fs, ExpectedSplitDir(args.alpha, "test"))) = args.num_partitions

\* C7: in a run the partitioner is called exactly twice, for train and then for
\* test; the train call is given the empty distribution and the test call
\* exactly the distribution the train call returned.
C7_DistThreading ==
    /\ Len(calls) <= 2
    /\ pc = "done" => Len(calls) = 2
    /\ Len(calls) >= 1 => (calls[1].data_str = "train" /\ calls[1].dirichlet_dist = <<>>)
    /\ Len(calls) = 2 => (calls[2].data_str = "test" /\ calls[2].dirichlet_dist = calls[1].returned)

\* C7 witness: a finished run whose test call was given a non-empty distribution.
C7_Witness ==
    /\ pc = "done"
    /\ Len(calls) = 2
    /\ calls[2].dirichlet_dist # <<>>
    /\ calls[2].dirichlet_dist = calls[1].returned

\* C8 (as claimed): any two distinct triples (alpha, split, index) are written to
\* distinct file paths.
C8_DistinctTriplesDistinctPaths ==
    \A w1, w2 \in named :
        <<w1.alpha, w1.data_str, w1.idx>> # <<w2.alpha, w2.data_str, w2.idx>> => w1.path # w2.path

\* C8 (amended): two triples are written to the same file path exactly when
\* they agree on alpha rounded to two decimals, on the split and on the index.
C8_PathsByRoundedAlpha ==
    \A w1, w2 \in named :
        (w1.path = w2.path) <=>
            (<<Round2(w1.alpha), w1.data_str, w1.idx>> = <<Round2(w2.alpha), w2.data_str, w2.idx>>)

\* C8 witness: two alphas that differ in the second decimal, same split and
\* index, at different paths.
C8_Witness ==
    \E w1, w2 \in named :
        /\ Round2(w1.alpha) # Round2(w2.alpha)
        /\ w1.data_str = w2.data_str
        /\ w1.idx = w2.idx
        /\ w1.path # w2.path

\* C9: after a run, a view constructed with partition_id = idx < num_partitions
\* and root_dir the split directory the run wrote resolves to the file written
\* for idx and loads that shard.
C9_ShardIndexIsLoadKey ==
    (pc = "done" /\ BaseCall) =>
        /\ view.exc = "none"
        /\ view.obj.partition_path = ShardPath(view.call.kw.root_dir, view.call.kw.partition_id)

\* C10 (as claimed): after runs with the same save_root and alpha, each split
\* directory holds exactly the shard files of the most recent run.
C10_OnlyLatestShards ==
    (pc = "done" /\ SameAlphaRuns) =>
        \A data_str \in {"train", "test"} :
            Listing(fs, ExpectedSplitDir(args.alpha, data_str))
                = {ExpectedShardName(i) : i \in 0 .. args.num_partitions - 1}

\* C10 (amended): after runs with the same save_root and alpha, each split
\* directory holds the shard files of the most recent run, with that run's
\* shards, together with the files of higher index left by earlier runs: as
\* many files as the largest num_partitions so far.
C10_LatestShardsAndLeftovers ==
    (pc = "done" /\ SameAlphaRuns) =>
        \A k \in 1 .. 2 :
            LET data_str == <<"train", "test">>[k]
                dir == ExpectedSplitDir(args.alpha, data_str)
            IN  /\ Listing(fs, dir) = {ExpectedShardName(i) : i \in 0 .. MaxN - 1}
                /\ \A i \in 0 .. args.num_partitions - 1 :
                       fs[Join(dir, ExpectedShardName(i))] = save(calls[k].partitions[i + 1])

\* C10 witness: a finished run with fewer partitions than the run before it,
\* same alpha.
C10_Witness ==
    /\ pc = "done"
    /\ SameAlphaRuns
    /\ Len(runs) = 2
    /\ runs[2].num_partitions < runs[1].num_partitions

====
